---- MODULE Spec2Model ----
(***************************************************************************)
(* A model of the schema-driven markdown parser of                         *)
(* src/src/markdown-parser.ts: the heading context stack (ContextDto),     *)
(* the per-node value extractor (parseValue, parseStringType), the         *)
(* assembler loop (reduceAstToObject), the array normalizer                *)
(* (reformatToMatchSchema) and the facade (parse, validate).               *)
(*                                                                         *)
(* Strings are sequences of one-character strings, so that concatenation,  *)
(* case conversion and comparison are computed and not assumed.  A         *)
(* JavaScript value is a record tagged by its field t.                     *)
(***************************************************************************)
EXTENDS Integers, Sequences, FiniteSets, TLC

VARIABLES
  pc,          \* position of the parse() call: idle, getAst, reduce, reformat, validate, returned, thrown
  schema,      \* the schema argument of parse()
  shifted,     \* the top-level AST children taken by children.shift() so far, in order
  tree,        \* ContextDto.tree: the stack of frames {path, schema, depth}
  result,      \* ContextDto.result: the raw result tree
  normalized,  \* the value reformatToMatchSchema returned inside parse()
  validated,   \* the value parse() handed to validate()
  ret,         \* the value parse() returned
  err,         \* the error thrown, NoError while none
  fpc,         \* position of a single-function run: idle, in, then once/twice, left/both or out
  fin,         \* the arguments of the function under a single-function run
  fout         \* the results it has given so far, in order

vars == <<pc, schema, shifted, tree, result, normalized, validated, ret, err, fpc, fin, fout>>

(***************************************************************************)
(* Characters and strings                                                  *)
(***************************************************************************)
Upper == <<"A", "B", "C", "D", "E", "F", "G", "H", "I", "J", "K", "L", "M",
           "N", "O", "P", "Q", "R", "S", "T", "U", "V", "W", "X", "Y", "Z">>

Lower == <<"a", "b", "c", "d", "e", "f", "g", "h", "i", "j", "k", "l", "m",
           "n", "o", "p", "q", "r", "s", "t", "u", "v", "w", "x", "y", "z">>

Digits == <<"0", "1", "2", "3", "4", "5", "6", "7", "8", "9">>

\* String.prototype.toLowerCase on one character
toLowerCaseChar(c) ==
  IF \E i \in 1..Len(Upper) : Upper[i] = c
  THEN Lower[CHOOSE i \in 1..Len(Upper) : Upper[i] = c]
  ELSE c

\* String.prototype.toLowerCase
toLowerCase(str) == [i \in 1..Len(str) |-> toLowerCaseChar(str[i])]

IsDigit(c) == \E i \in 1..Len(Digits) : Digits[i] = c

DigitValue(c) == (CHOOSE i \in 1..Len(Digits) : Digits[i] = c) - 1

RECURSIVE DigitsToNumber(_)
DigitsToNumber(str) ==
  IF str = <<>> THEN 0
  ELSE 10 * DigitsToNumber(SubSeq(str, 1, Len(str) - 1)) + DigitValue(str[Len(str)])

RECURSIVE NumberToDigits(_)
\* Number.prototype.toString of a non-negative integer
NumberToDigits(n) ==
  IF n < 10 THEN <<Digits[n + 1]>>
  ELSE NumberToDigits(n \div 10) \o <<Digits[(n % 10) + 1]>>

RECURSIVE Join(_)
\* Array.prototype.join('') of a sequence of strings
Join(strs) == IF strs = <<>> THEN <<>> ELSE Head(strs) \o Join(Tail(strs))

(***************************************************************************)
(* JavaScript values                                                       *)
(***************************************************************************)
Null == [t |-> "null"]
Undefined == [t |-> "undefined"]
Hole == [t |-> "hole"]        \* an absent element of a sparse array
NaN == [t |-> "NaN"]
StringV(s) == [t |-> "string", s |-> s]
NumberV(n) == [t |-> "number", n |-> n]
BooleanV(b) == [t |-> "boolean", b |-> b]
\* an array: its elements a (Hole where sparse) and its non-index own properties p
ArrayV(a) == [t |-> "array", a |-> a, p |-> <<>>]
\* a plain object: its own properties as key/value pairs in Object.keys order
ObjectV(p) == [t |-> "object", p |-> p]

IsArray(v) == v.t = "array"
IsPlainObject(v) == v.t = "object"
\* lodash isObject / typeof v === 'object' && v !== null
IsObject(v) == v.t \in {"array", "object"}
\* the operand of `!obj`
IsFalsy(v) ==
  \/ v.t \in {"null", "undefined", "NaN"}
  \/ v.t = "string" /\ v.s = <<>>
  \/ v.t = "number" /\ v.n = 0
  \/ v.t = "boolean" /\ ~v.b

\* an array index / integer-like property key: /^(?:0|[1-9]\d*)$/
IsIndex(key) ==
  /\ Len(key) > 0
  /\ \A i \in 1..Len(key) : IsDigit(key[i])
  /\ (Len(key) = 1 \/ key[1] # "0")

HasKey(pairs, key) == \E i \in 1..Len(pairs) : pairs[i].k = key

Lookup(pairs, key) == pairs[CHOOSE i \in 1..Len(pairs) : pairs[i].k = key].v

\* where a new own property lands in the order Object.keys reports:
\* integer-like keys ascending first, then the other keys in insertion order
InsertPosition(pairs, key) ==
  IF IsIndex(key)
  THEN Cardinality({i \in 1..Len(pairs) :
                      IsIndex(pairs[i].k) /\ DigitsToNumber(pairs[i].k) < DigitsToNumber(key)}) + 1
  ELSE Len(pairs) + 1

\* object[key] = value on the own properties of an object
PutKey(pairs, key, value) ==
  IF HasKey(pairs, key)
  THEN [i \in 1..Len(pairs) |-> IF pairs[i].k = key THEN [k |-> key, v |-> value] ELSE pairs[i]]
  ELSE LET at == InsertPosition(pairs, key)
       IN SubSeq(pairs, 1, at - 1) \o <<[k |-> key, v |-> value]>> \o SubSeq(pairs, at, Len(pairs))

\* Object.keys of a plain object
ObjectKeys(obj) == [i \in 1..Len(obj.p) |-> obj.p[i].k]

\* a function inherited from Object.prototype
FunctionV(name) == [t |-> "function", name |-> name]

KeyToString == <<"t", "o", "S", "t", "r", "i", "n", "g">>
KeyValueOf == <<"v", "a", "l", "u", "e", "O", "f">>

\* names every object literal inherits (among them)
InheritedKeys == {KeyToString, KeyValueOf}

\* object[key]: an own property, or a member inherited from Object.prototype
Member(obj, key) ==
  CASE obj.t = "object" ->
         IF HasKey(obj.p, key) THEN Lookup(obj.p, key)
         ELSE IF key \in InheritedKeys THEN FunctionV(key)
         ELSE Undefined
    [] obj.t = "array" ->
         IF IsIndex(key)
         THEN LET n == DigitsToNumber(key)
              IN IF n < Len(obj.a) /\ obj.a[n + 1] # Hole THEN obj.a[n + 1] ELSE Undefined
         ELSE IF HasKey(obj.p, key) THEN Lookup(obj.p, key)
         ELSE IF key \in InheritedKeys THEN FunctionV(key)
         ELSE Undefined
    [] OTHER -> Undefined

\* object[key] = value (lodash assignValue) on a plain object or an array
AssignValue(obj, key, value) ==
  CASE obj.t = "object" -> [obj EXCEPT !.p = PutKey(obj.p, key, value)]
    [] obj.t = "array" ->
         IF IsIndex(key)
         THEN LET n == DigitsToNumber(key)
                  len == IF n < Len(obj.a) THEN Len(obj.a) ELSE n + 1
              IN [obj EXCEPT !.a = [i \in 1..len |->
                                      IF i = n + 1 THEN value
                                      ELSE IF i <= Len(obj.a) THEN obj.a[i] ELSE Hole]]
         ELSE [obj EXCEPT !.p = PutKey(obj.p, key, value)]

RECURSIVE BaseGet(_, _, _)
BaseGet(object, path, index) ==
  IF object.t \notin {"null", "undefined"} /\ index < Len(path)
  THEN BaseGet(Member(object, path[index + 1]), path, index + 1)
  ELSE IF index # 0 /\ index = Len(path) THEN object ELSE Undefined

\* lodash get(object, path) with an array path
get(object, path) == BaseGet(object, path, 0)

RECURSIVE BaseSet(_, _, _, _)
BaseSet(nested, path, index, value) ==
  LET key == path[index]
      objValue == Member(nested, key)
      newValue ==
        IF index = Len(path) THEN value
        ELSE IF IsObject(objValue) THEN BaseSet(objValue, path, index + 1, value)
        ELSE BaseSet(IF IsIndex(path[index + 1]) THEN ArrayV(<<>>) ELSE ObjectV(<<>>),
                     path, index + 1, value)
  IN AssignValue(nested, key, newValue)

\* lodash set(object, path, value) with an array path
set(object, path, value) ==
  IF ~IsObject(object) \/ path = <<>> THEN object ELSE BaseSet(object, path, 1, value)

(***************************************************************************)
(* Schemas (SimpleJSONSchema) and AST nodes (mdast)                        *)
(***************************************************************************)
\* `type` given as one string, and as an array of strings
TypeName(name) == [name |-> name]
TypeList(names) == [list |-> names]

\* a schema without `items`: properties in declaration order, absent = empty
SchemaOf(type, properties, required) ==
  [type |-> type, properties |-> properties, required |-> required]

Prim(name) == SchemaOf(TypeName(name), <<>>, {})
AnyOf(names) == SchemaOf(TypeList(names), <<>>, {})
ObjectSchema(properties, required) == SchemaOf(TypeName("object"), properties, required)
WithItems(s, items) ==
  [type |-> s.type, properties |-> s.properties, required |-> s.required, items |-> items]
ArraySchema(items) == WithItems(Prim("array"), items)
Prop(name, s) == [k |-> name, v |-> s]

HasItems(s) == "items" \in DOMAIN s

Text(value) == [type |-> "text", value |-> value]
Literal(type, value) == [type |-> type, value |-> value]
Parent(type, children) == [type |-> type, children |-> children]
Paragraph(value) == Parent("paragraph", <<Text(value)>>)
Heading(depth, label) == [type |-> "heading", depth |-> depth, children |-> <<Text(label)>>]
List(ordered, children) == [type |-> "list", ordered |-> ordered, children |-> children]
ListItem(value) == Parent("listItem", <<Paragraph(value)>>)
Leaf(type) == [type |-> type]
NoParent == [type |-> "undefined"]

(***************************************************************************)
(* Outcomes: a returned value, or a thrown error                           *)
(***************************************************************************)
Ok(v) == [ok |-> TRUE, v |-> v]
Throw(msg, arg) == [ok |-> FALSE, e |-> [msg |-> msg, arg |-> arg]]
NoError == [msg |-> "none"]

\* the first error of a sequence of outcomes evaluated left to right
FirstError(rs) == rs[CHOOSE i \in 1..Len(rs) : ~rs[i].ok /\ \A j \in 1..(i - 1) : rs[j].ok]

AllOk(rs) == \A i \in 1..Len(rs) : rs[i].ok

(***************************************************************************)
(* MarkdownParser: the value extractor                                     *)
(***************************************************************************)
LiteralTypes == {"text", "inlineCode", "code", "html", "yaml"}

ParentTypes == {"paragraph", "strong", "italic", "emphasis", "footnote",
                "footnoteDefinition", "link", "linkReference", "list"}

RECURSIVE parseStringType(_, _, _)
RECURSIVE parseChildValue(_)

parseLiteralValue(node) == node.value

\* a parseChildValue that joins the children with a space
parseChildValueSpaced(node) ==
  LET rs == [i \in 1..Len(node.children) |-> parseStringType(node.children[i], i - 1, node)]
      spaced == [i \in 1..Len(rs) |-> IF i = 1 THEN rs[i].v ELSE <<" ">> \o rs[i].v]
  IN IF AllOk(rs) THEN Ok(Join(spaced)) ELSE FirstError(rs)

parseChildValue(node) ==
  LET rs == [i \in 1..Len(node.children) |-> parseStringType(node.children[i], i - 1, node)]
  IN IF AllOk(rs) THEN Ok(Join([i \in 1..Len(rs) |-> rs[i].v])) ELSE FirstError(rs)

\* a parseStringType that renders a node kind it does not know as ''
parseStringTypeLenient(node, index, parent) ==
  CASE node.type \in LiteralTypes -> Ok(parseLiteralValue(node))
    [] node.type \in ParentTypes -> parseChildValue(node)
    [] node.type = "break" -> Ok(<<"\n">>)
    [] node.type = "listItem" ->
         IF parent = NoParent THEN Throw("TypeError", "parentNode.ordered")
         ELSE LET prefix == IF "ordered" \in DOMAIN parent /\ parent.ordered
                            THEN NumberToDigits(index + 1) \o <<".">>
                            ELSE <<"-">>
                  inner == parseChildValue(node)
              IN IF inner.ok THEN Ok(prefix \o <<" ">> \o inner.v \o <<"\n">>) ELSE inner
    [] OTHER -> Ok(<<>>)

parseStringType(node, index, parent) ==
  CASE node.type \in LiteralTypes -> Ok(parseLiteralValue(node))
    [] node.type \in ParentTypes -> parseChildValue(node)
    [] node.type \in {"delete", "thematicBreak"} -> Ok(<<>>)
    [] node.type = "break" -> Ok(<<"\n">>)
    [] node.type = "listItem" ->
         IF parent = NoParent THEN Throw("TypeError", "parentNode.ordered")
         ELSE LET prefix == IF "ordered" \in DOMAIN parent /\ parent.ordered
                            THEN NumberToDigits(index + 1) \o <<".">>
                            ELSE <<"-">>
                  inner == parseChildValue(node)
              IN IF inner.ok THEN Ok(prefix \o <<" ">> \o inner.v \o <<"\n">>) ELSE inner
    [] OTHER -> Throw("Unexpected content type", node.type)

\* a parseArrayItemType that keeps the list marker
parseArrayItemTypeMarked(node) ==
  IF node.type = "listItem" THEN parseStringType(node, 0, List(FALSE, <<node>>))
  ELSE Throw("Unexpected array item type", node.type)

parseArrayItemType(node) ==
  IF node.type = "listItem" THEN parseChildValue(node)
  ELSE Throw("Unexpected array item type", node.type)

parseList(node) ==
  LET rs == [i \in 1..Len(node.children) |-> parseArrayItemType(node.children[i])]
  IN IF AllOk(rs) THEN Ok(ArrayV([i \in 1..Len(rs) |-> StringV(rs[i].v)])) ELSE FirstError(rs)

parseArrayType(node) ==
  IF node.type = "list" THEN parseList(node)
  ELSE Throw("Unexpected array type", node.type)

Whitespace == {" ", "\n"}

RECURSIVE TrimLeft(_)
TrimLeft(str) ==
  IF str # <<>> /\ Head(str) \in Whitespace THEN TrimLeft(Tail(str)) ELSE str

RECURSIVE TrimRight(_)
TrimRight(str) ==
  IF str # <<>> /\ str[Len(str)] \in Whitespace
  THEN TrimRight(SubSeq(str, 1, Len(str) - 1)) ELSE str

\* Number(str) on the strings of the model: white space is trimmed, the empty
\* string is 0, a run of decimal digits is its value, anything else is NaN
\* (the model's texts hold no sign, fraction, exponent or radix prefix)
ToNumber(str) ==
  LET trimmed == TrimRight(TrimLeft(str))
  IN IF \A i \in 1..Len(trimmed) : IsDigit(trimmed[i])
     THEN NumberV(DigitsToNumber(trimmed))
     ELSE NaN

TrueLiteral == <<"t", "r", "u", "e">>

\* the boolean as the negation of the extracted string: !text
parseBooleanNegation(text) == text = <<>>

\* the 'boolean' case of parseValue: 'true' === text.toLowerCase()
parseBooleanText(text) == TrueLiteral = toLowerCase(text)

\* a parseValue that stores null under a type it has no case for
parseValueUnknownAsNull(node, type) ==
  CASE type = TypeName("array") -> parseArrayType(node)
    [] type = TypeName("string") ->
         LET r == parseStringType(node, 0, NoParent) IN IF r.ok THEN Ok(StringV(r.v)) ELSE r
    [] type = TypeName("number") ->
         LET r == parseStringType(node, 0, NoParent) IN IF r.ok THEN Ok(ToNumber(r.v)) ELSE r
    [] type = TypeName("boolean") ->
         LET r == parseStringType(node, 0, NoParent)
         IN IF r.ok THEN Ok(BooleanV(parseBooleanText(r.v))) ELSE r
    [] OTHER -> Ok(Null)

parseValue(node, type) ==
  CASE type = TypeName("array") -> parseArrayType(node)
    [] type = TypeName("string") ->
         LET r == parseStringType(node, 0, NoParent) IN IF r.ok THEN Ok(StringV(r.v)) ELSE r
    [] type = TypeName("number") ->
         LET r == parseStringType(node, 0, NoParent) IN IF r.ok THEN Ok(ToNumber(r.v)) ELSE r
    [] type = TypeName("boolean") ->
         LET r == parseStringType(node, 0, NoParent)
         IN IF r.ok THEN Ok(BooleanV(parseBooleanText(r.v))) ELSE r
    [] type = TypeName("null") -> Ok(Null)
    [] OTHER -> Throw("Unknown schema type", type)

\* a lowerCaseFirst that lower-cases the whole string
lowerCaseAll(str) == toLowerCase(str)

lowerCaseFirst(str) ==
  IF str = <<>> THEN <<>> ELSE <<toLowerCaseChar(str[1])>> \o Tail(str)

(***************************************************************************)
(* ContextDto                                                              *)
(***************************************************************************)
RootPath == <<"r", "o", "o", "t">>

\* a constructor whose root frame sits at the level of a top heading
NewTreeAtLevelOne(s) == <<[path |-> RootPath, schema |-> s, depth |-> 1]>>

\* a constructor that takes over the tree a finished call of the same
\* process left behind
NewTreeKept(s) ==
  IF fpc = "calls" /\ \E i \in DOMAIN fout.calls : fout.calls[i].tree # <<>>
  THEN fout.calls[CHOOSE i \in DOMAIN fout.calls : fout.calls[i].tree # <<>>].tree
  ELSE <<[path |-> RootPath, schema |-> s, depth |-> 0]>>

\* new ContextDto(schema): the tree holds the root frame, the result is {}
NewTree(s) == <<[path |-> RootPath, schema |-> s, depth |-> 0]>>
NewResult == ObjectV(<<>>)

getCurrentContext(t) == t[Len(t)]
\* the depth of a frame taken as its position above the root
getCurrentDepthAsNesting(t) == Len(t) - 1

getCurrentDepth(t) == getCurrentContext(t).depth
getCurrentSchema(t) == getCurrentContext(t).schema

HasPropertySchema(t, name) == HasKey(getCurrentSchema(t).properties, name)
getPropertySchema(t, name) == Lookup(getCurrentSchema(t).properties, name)

HasArrayItemSchema(t) == HasItems(getCurrentSchema(t))
getArrayItemSchema(t) == getCurrentSchema(t).items

\* exclude the root key
getPropertyPath(t) == [i \in 1..(Len(t) - 1) |-> t[i + 1].path]

RECURSIVE JoinComma(_)
JoinComma(strs) ==
  IF strs = <<>> THEN <<>>
  ELSE IF Len(strs) = 1 THEN strs[1]
  ELSE Head(strs) \o <<",">> \o JoinComma(Tail(strs))

RECURSIVE TemplateString(_)
\* the conversion a template literal applies to an interpolated value
TemplateString(v) ==
  CASE v.t = "string" -> v.s
    [] v.t = "number" -> NumberToDigits(v.n)
    [] v.t = "NaN" -> <<"N", "a", "N">>
    [] v.t = "boolean" -> IF v.b THEN TrueLiteral ELSE <<"f", "a", "l", "s", "e">>
    [] v.t = "null" -> <<"n", "u", "l", "l">>
    [] v.t = "undefined" -> <<"u", "n", "d", "e", "f", "i", "n", "e", "d">>
    [] v.t = "object" -> <<"[", "o", "b", "j", "e", "c", "t", " ", "O", "b", "j", "e", "c", "t", "]">>
    [] v.t = "array" ->
         JoinComma([i \in 1..Len(v.a) |->
                      IF v.a[i].t \in {"null", "undefined", "hole"} THEN <<>> ELSE TemplateString(v.a[i])])

Separator == <<"\n", "\n">>

\* a merge that starts afresh on every falsy current value, not only on null
MergeValueOnFalsy(current, value) ==
  IF IsFalsy(current) THEN Ok(value)
  ELSE IF IsArray(value)
  THEN Ok(ArrayV(current.a \o value.a))
  ELSE Ok(StringV(TemplateString(current) \o Separator \o TemplateString(value)))

\* the value addValue stores: the merge of the value at the path with a new one
MergeValue(current, value) ==
  IF IsArray(value)
  THEN IF current = Null THEN Ok(value)
       ELSE IF IsArray(current)
       THEN Ok(ArrayV([i \in 1..Len(current.a) |->
                         IF current.a[i] = Hole THEN Undefined ELSE current.a[i]] \o value.a))
       ELSE IF current.t = "string"
       THEN Ok(ArrayV([i \in 1..Len(current.s) |-> StringV(<<current.s[i]>>)] \o value.a))
       ELSE Throw("TypeError", "current is not iterable")
  ELSE IF current = Null THEN Ok(value)
       ELSE Ok(StringV(TemplateString(current) \o Separator \o TemplateString(value)))

\* an addValue that stores the new value over the one at the path
addValueReplacing(t, res, value) == Ok(set(res, getPropertyPath(t), value))

\* addValue(value): the new result, or the error of the spread
addValue(t, res, value) ==
  LET path == getPropertyPath(t)
      current == get(res, path)
      newValue == MergeValue(current, value)
  IN IF newValue.ok THEN Ok(set(res, path, newValue.v)) ELSE newValue

\* an addProperty that pushes the frame and leaves the result alone
addPropertyWithoutSeed(t, res, path, depth, s) ==
  [tree |-> Append(t, [path |-> path, schema |-> s, depth |-> depth]), result |-> res]

\* an addProperty that pushes the frame twice
addPropertyPushingTwice(t, res, path, depth, s) ==
  LET frame == [path |-> path, schema |-> s, depth |-> depth]
  IN [tree |-> t \o <<frame, frame>>, result |-> set(res, getPropertyPath(t) \o <<path>>, Null)]

\* addProperty(path, depth, schema): the new tree and the new result
addProperty(t, res, path, depth, s) ==
  LET pushed == Append(t, [path |-> path, schema |-> s, depth |-> depth])
  IN [tree |-> pushed, result |-> set(res, getPropertyPath(pushed), Null)]

goLevelUp(t) == SubSeq(t, 1, Len(t) - 1)

RECURSIVE PopBelowLevel(_, _)
\* a pop that keeps the frames of the heading's own level
PopBelowLevel(t, depth) ==
  IF t # <<>> /\ depth < getCurrentDepth(t) THEN PopBelowLevel(goLevelUp(t), depth) ELSE t

RECURSIVE PopToLevel(_, _)
\* while (item.depth <= context.getCurrentDepth()) context.goLevelUp()
PopToLevel(t, depth) ==
  IF t # <<>> /\ depth <= getCurrentDepth(t) THEN PopToLevel(goLevelUp(t), depth) ELSE t

(***************************************************************************)
(* MarkdownParser.reduceAstToObject: one iteration of the loop             *)
(***************************************************************************)
\* a heading case whose error holds the label as written
ResolveHeadingRawLabel(t, res, item) ==
  LET popped == PopToLevel(t, item.depth)
      label == parseChildValue(item)
      propertyName == lowerCaseFirst(label.v)
  IN IF popped = <<>> THEN Throw("TypeError", "getCurrentContext")
     ELSE IF ~label.ok THEN label
     ELSE IF HasPropertySchema(popped, propertyName)
     THEN Ok(addProperty(popped, res, propertyName, item.depth,
                         getPropertySchema(popped, propertyName)))
     ELSE IF HasArrayItemSchema(popped)
     THEN Ok(addProperty(popped, res, propertyName, item.depth, getArrayItemSchema(popped)))
     ELSE Throw("Heading element has no schema definition", label.v)

\* a heading case that tries the array item schema before the property
ResolveHeadingItemsFirst(t, res, item) ==
  LET popped == PopToLevel(t, item.depth)
      label == parseChildValue(item)
      propertyName == lowerCaseFirst(label.v)
  IN IF popped = <<>> THEN Throw("TypeError", "getCurrentContext")
     ELSE IF ~label.ok THEN label
     ELSE IF HasArrayItemSchema(popped)
     THEN Ok(addProperty(popped, res, propertyName, item.depth, getArrayItemSchema(popped)))
     ELSE IF HasPropertySchema(popped, propertyName)
     THEN Ok(addProperty(popped, res, propertyName, item.depth,
                         getPropertySchema(popped, propertyName)))
     ELSE Throw("Heading element has no schema definition", propertyName)

\* the heading case: the new tree and result, or the error thrown
ResolveHeading(t, res, item) ==
  LET popped == PopToLevel(t, item.depth)
      label == parseChildValue(item)
      propertyName == lowerCaseFirst(label.v)
  IN IF popped = <<>> THEN Throw("TypeError", "getCurrentContext")
     ELSE IF ~label.ok THEN label
     ELSE IF HasPropertySchema(popped, propertyName)
     THEN Ok(addProperty(popped, res, propertyName, item.depth,
                         getPropertySchema(popped, propertyName)))
     ELSE IF HasArrayItemSchema(popped)
     THEN Ok(addProperty(popped, res, propertyName, item.depth, getArrayItemSchema(popped)))
     ELSE Throw("Heading element has no schema definition", propertyName)

\* a default case that passes over a node it cannot parse
MergeContentSkipping(t, res, item) ==
  LET value == parseValue(item, getCurrentSchema(t).type)
      added == addValue(t, res, value.v)
  IN IF ~value.ok THEN Ok([tree |-> t, result |-> res])
     ELSE IF ~added.ok THEN added
     ELSE Ok([tree |-> t, result |-> added.v])

\* the default case: the value is parsed and merged to the current path
MergeContent(t, res, item) ==
  LET value == parseValue(item, getCurrentSchema(t).type)
      added == addValue(t, res, value.v)
  IN IF ~value.ok THEN value
     ELSE IF ~added.ok THEN added
     ELSE Ok([tree |-> t, result |-> added.v])

ReduceItem(t, res, item) ==
  IF item.type = "heading" THEN ResolveHeading(t, res, item) ELSE MergeContent(t, res, item)

(***************************************************************************)
(* MarkdownParser.reformatToMatchSchema                                    *)
(***************************************************************************)
RECURSIVE reformatToMatchSchema(_, _)
\* a reformatToMatchSchema whose mapping-to-array branch leaves the values as
\* they are
reformatWithoutItems(obj, s) ==
  IF IsFalsy(obj) THEN obj
  ELSE IF s.type = TypeName("array") /\ IsPlainObject(obj)
  THEN ArrayV([i \in 1..Len(ObjectKeys(obj)) |-> Member(obj, ObjectKeys(obj)[i])])
  ELSE IF s.type = TypeName("object") /\ IsPlainObject(obj)
  THEN LET present == SelectSeq(s.properties, LAMBDA pr : Member(obj, pr.k) # Undefined)
       IN ObjectV([i \in 1..Len(present) |->
                     [k |-> present[i].k,
                      v |-> reformatToMatchSchema(Member(obj, present[i].k), present[i].v)]])
  ELSE IF s.type = TypeName("array") /\ IsArray(obj) /\ HasItems(s)
  THEN ArrayV([i \in 1..Len(obj.a) |->
                 IF obj.a[i] = Hole THEN Hole ELSE reformatToMatchSchema(obj.a[i], s.items)])
  ELSE obj

\* a reformatToMatchSchema that leaves the keys of a mapping as they are
reformatKeepingKeys(obj, s) ==
  IF IsFalsy(obj) THEN obj
  ELSE IF s.type = TypeName("array") /\ IsPlainObject(obj)
  THEN ArrayV([i \in 1..Len(ObjectKeys(obj)) |->
                 LET value == Member(obj, ObjectKeys(obj)[i])
                 IN IF HasItems(s) THEN reformatToMatchSchema(value, s.items) ELSE value])
  ELSE IF s.type = TypeName("object") /\ IsPlainObject(obj)
  THEN ObjectV([i \in 1..Len(obj.p) |->
                  [k |-> obj.p[i].k,
                   v |-> IF HasKey(s.properties, obj.p[i].k)
                         THEN reformatToMatchSchema(obj.p[i].v, Lookup(s.properties, obj.p[i].k))
                         ELSE obj.p[i].v]])
  ELSE IF s.type = TypeName("array") /\ IsArray(obj) /\ HasItems(s)
  THEN ArrayV([i \in 1..Len(obj.a) |->
                 IF obj.a[i] = Hole THEN Hole ELSE reformatToMatchSchema(obj.a[i], s.items)])
  ELSE obj

\* a reformatToMatchSchema that takes a union type holding 'array' or 'object'
\* for that type
reformatAcceptingUnions(obj, s) ==
  LET Holds(name) ==
        \/ s.type = TypeName(name)
        \/ "list" \in DOMAIN s.type /\ \E i \in 1..Len(s.type.list) : s.type.list[i] = name
  IN IF IsFalsy(obj) THEN obj
     ELSE IF Holds("array") /\ IsPlainObject(obj)
     THEN ArrayV([i \in 1..Len(ObjectKeys(obj)) |->
                    LET value == Member(obj, ObjectKeys(obj)[i])
                    IN IF HasItems(s) THEN reformatToMatchSchema(value, s.items) ELSE value])
     ELSE IF Holds("object") /\ IsPlainObject(obj)
     THEN LET present == SelectSeq(s.properties, LAMBDA pr : Member(obj, pr.k) # Undefined)
          IN ObjectV([i \in 1..Len(present) |->
                        [k |-> present[i].k,
                         v |-> reformatToMatchSchema(Member(obj, present[i].k), present[i].v)]])
     ELSE IF Holds("array") /\ IsArray(obj) /\ HasItems(s)
     THEN ArrayV([i \in 1..Len(obj.a) |->
                    IF obj.a[i] = Hole THEN Hole ELSE reformatToMatchSchema(obj.a[i], s.items)])
     ELSE obj

reformatToMatchSchema(obj, s) ==
  IF IsFalsy(obj) THEN obj
  ELSE IF s.type = TypeName("array") /\ IsPlainObject(obj)
  THEN ArrayV([i \in 1..Len(ObjectKeys(obj)) |->
                 LET value == Member(obj, ObjectKeys(obj)[i])
                 IN IF HasItems(s) THEN reformatToMatchSchema(value, s.items) ELSE value])
  ELSE IF s.type = TypeName("object") /\ IsPlainObject(obj)
  THEN LET present == SelectSeq(s.properties, LAMBDA pr : Member(obj, pr.k) # Undefined)
       IN ObjectV([i \in 1..Len(present) |->
                     [k |-> present[i].k,
                      v |-> reformatToMatchSchema(Member(obj, present[i].k), present[i].v)]])
  ELSE IF s.type = TypeName("array") /\ IsArray(obj) /\ HasItems(s)
  THEN ArrayV([i \in 1..Len(obj.a) |->
                 IF obj.a[i] = Hole THEN Hole ELSE reformatToMatchSchema(obj.a[i], s.items)])
  ELSE obj

(***************************************************************************)
(* MarkdownParser.validate: Ajv (strict: false) on type, properties,       *)
(* required and items                                                      *)
(***************************************************************************)
\* Ajv's check of one name of `type`
IsOfType(v, name) ==
  CASE name = "object" -> IsPlainObject(v)
    [] name = "array" -> IsArray(v)
    [] name = "string" -> v.t = "string"
    \* strict: false leaves strictNumbers off: typeof NaN is 'number'
    [] name = "number" -> v.t \in {"number", "NaN"}
    [] name = "integer" -> v.t = "number"
    [] name = "boolean" -> v.t = "boolean"
    [] name = "null" -> v = Null
    [] OTHER -> FALSE

TypeValid(v, type) ==
  IF "name" \in DOMAIN type THEN IsOfType(v, type.name)
  ELSE \E i \in 1..Len(type.list) : IsOfType(v, type.list[i])

RECURSIVE Conforms(_, _)
\* whether the compiled validator accepts the value
Conforms(v, s) ==
  /\ TypeValid(v, s.type)
  /\ IsPlainObject(v) =>
       /\ \A key \in s.required : Member(v, key) # Undefined
       /\ \A i \in 1..Len(s.properties) :
            Member(v, s.properties[i].k) # Undefined =>
              Conforms(Member(v, s.properties[i].k), s.properties[i].v)
  /\ (IsArray(v) /\ HasItems(s)) =>
       \A i \in 1..Len(v.a) :
         Conforms(IF v.a[i] = Hole THEN Undefined ELSE v.a[i], s.items)

\* a validate() that ignores the validator's verdict
validateIgnoringErrors(obj, s) == Ok(obj)

\* a validate() that looks at the type of the top level only
validateTopLevelType(obj, s) ==
  IF TypeValid(obj, s.type) THEN Ok(obj) ELSE Throw("Result validation failed.", <<>>)

\* validate(obj, schema): throws unless the validator accepts; the Error is
\* made from the message alone (validate.errors goes to console.log)
validate(obj, s) ==
  IF Conforms(obj, s) THEN Ok(obj) ELSE Throw("Result validation failed.", <<>>)

(***************************************************************************)
(* MarkdownParser.parse: the facade                                        *)
(***************************************************************************)
\* a parse() that validates what parseToObject returned
ValidateArgumentRaw(parsedObject, reformatted) == parsedObject

\* parse(): `this.validate(result, schema)` validates the reformatted object
ValidateArgument(parsedObject, reformatted) == reformatted

\* parse(): `return result as T` returns the reformatted object
ReturnValue(parsedObject, reformatted) == reformatted

(***************************************************************************)
(* The inputs of the model: schemas, and for each the top-level nodes its  *)
(* documents are made of                                                   *)
(***************************************************************************)
MaxNodes == 5      \* the longest document: its number of top-level nodes

Headings(depths, labels) == {Heading(d, l) : d \in depths, l \in labels}

Foo == <<"f", "o", "o">>
Bar == <<"b", "a", "r">>
One == <<"o", "n", "e">>
Two == <<"t", "w", "o">>

\* property names as the schemas declare them
KeyTitle == <<"t", "i", "t", "l", "e">>
KeyDescription == <<"d", "e", "s", "c", "r", "i", "p", "t", "i", "o", "n">>
KeyOrderedList == <<"o", "r", "d", "e", "r", "e", "d", "L", "i", "s", "t">>
KeyItems == <<"i", "t", "e", "m", "s">>
KeyList == <<"l", "i", "s", "t">>
KeyOther == <<"o", "t", "h", "e", "r">>
KeyName == <<"n", "a", "m", "e">>
KeyA == <<"a">>
KeyB == <<"b">>

\* heading labels as the documents spell them
LabelTitle == <<"T", "i", "t", "l", "e">>
LabelDescription == <<"D", "e", "s", "c", "r", "i", "p", "t", "i", "o", "n">>
LabelOrderedList == <<"O", "r", "d", "e", "r", "e", "d", "L", "i", "s", "t">>
LabelItem1 == <<"I", "t", "e", "m", " ", "1">>
LabelItem2 == <<"I", "t", "e", "m", " ", "2">>
LabelItems == <<"I", "t", "e", "m", "s">>
LabelList == <<"L", "i", "s", "t">>
LabelOther == <<"O", "t", "h", "e", "r">>
LabelName == <<"N", "a", "m", "e">>
LabelExtra == <<"E", "x", "t", "r", "a">>
LabelA == <<"A">>
LabelB == <<"B">>

NullableString == AnyOf(<<"string", "null">>)

\* the schema of the tests: lower-first property names, a nullable string
DocSchema ==
  ObjectSchema(<<Prop(KeyTitle, Prim("string")), Prop(KeyDescription, NullableString)>>,
               {KeyTitle})

DocNodes ==
  Headings({1, 2}, {LabelTitle, LabelDescription}) \cup {Paragraph(Foo), Paragraph(Bar)}

\* the schema of the README: property names declared capitalised
ReadmeSchema ==
  ObjectSchema(<<Prop(LabelTitle, Prim("string")), Prop(LabelDescription, Prim("string"))>>,
               {LabelTitle})

ReadmeNodes ==
  Headings({1}, {LabelTitle, LabelDescription}) \cup {Paragraph(Foo), Paragraph(Bar)}

\* an array of strings, filled from a list or from sub-headings
ListSchema ==
  ObjectSchema(<<Prop(KeyOrderedList, ArraySchema(Prim("string")))>>, {KeyOrderedList})

ListNodes ==
  {Heading(1, LabelOrderedList), Heading(2, LabelItem1), Heading(2, LabelItem2),
   List(TRUE, <<ListItem(One), ListItem(Two)>>), List(FALSE, <<ListItem(Foo)>>),
   Paragraph(One), Paragraph(Two)}

\* an array of objects with string fields (the README's Features)
ItemsSchema ==
  ObjectSchema(<<Prop(KeyItems,
                      ArraySchema(ObjectSchema(<<Prop(KeyA, Prim("string")),
                                                 Prop(KeyB, Prim("string"))>>, {})))>>,
               {})

ItemsNodes ==
  {Heading(1, LabelItems), Heading(2, LabelA), Heading(2, LabelB), Heading(3, LabelA),
   Paragraph(Foo), Paragraph(Bar)}

\* an array of objects with nullable fields, its elements given as sub-sections
SectionsSchema ==
  ObjectSchema(<<Prop(KeyItems,
                      ArraySchema(ObjectSchema(<<Prop(KeyA, NullableString),
                                                 Prop(KeyB, NullableString)>>, {})))>>,
               {})

SectionsNodes ==
  {Heading(1, LabelItems)}
    \cup Headings({2}, {<<"x">>, <<"Y">>, <<"0">>, <<"1">>})
    \cup Headings({3}, {LabelA, LabelB})
    \cup {Paragraph(Foo)}

\* a nullable array of objects beside a string
NullableSchema ==
  ObjectSchema(<<Prop(KeyList,
                      WithItems(AnyOf(<<"array", "null">>),
                                ObjectSchema(<<Prop(KeyName, Prim("string"))>>, {}))),
                 Prop(KeyOther, Prim("string"))>>,
               {KeyList})

NullableNodes ==
  {Heading(1, LabelList), Heading(1, LabelOther), Heading(2, <<"x">>),
   Heading(3, LabelName), Paragraph(Foo)}

\* an object that declares a property and an `items` fragment as well
MixedSchema ==
  WithItems(ObjectSchema(<<Prop(KeyTitle, Prim("string"))>>, {}), Prim("string"))

MixedNodes ==
  {Heading(1, LabelTitle), Heading(1, LabelExtra), Heading(2, LabelTitle),
   Paragraph(Foo), Paragraph(Bar)}

\* a number field
KeyCount == <<"c", "o", "u", "n", "t">>
LabelCount == <<"C", "o", "u", "n", "t">>
Twelve == <<"1", "2">>

CountSchema == ObjectSchema(<<Prop(KeyCount, Prim("number"))>>, {KeyCount})

CountNodes ==
  {Heading(1, LabelCount), Paragraph(Twelve), Paragraph(Foo), Leaf("thematicBreak")}

\* a frame that offers the property 'title' and an `items` fragment of
\* another type
PrecedenceSchema ==
  WithItems(ObjectSchema(<<Prop(KeyTitle, Prim("string"))>>, {}), Prim("boolean"))

PrecedenceNodes ==
  {Heading(1, LabelTitle), Heading(1, LabelExtra), Heading(2, LabelTitle),
   Paragraph(<<"T", "r", "u", "e">>)}

Scenarios ==
  {[schema |-> DocSchema, nodes |-> DocNodes],
   [schema |-> ReadmeSchema, nodes |-> ReadmeNodes],
   [schema |-> ListSchema, nodes |-> ListNodes],
   [schema |-> ItemsSchema, nodes |-> ItemsNodes],
   [schema |-> SectionsSchema, nodes |-> SectionsNodes],
   [schema |-> NullableSchema, nodes |-> NullableNodes],
   [schema |-> MixedSchema, nodes |-> MixedNodes],
   [schema |-> CountSchema, nodes |-> CountNodes],
   [schema |-> PrecedenceSchema, nodes |-> PrecedenceNodes]}

\* the top-level nodes a document for the schema is made of
Vocabulary(s) == (CHOOSE sc \in Scenarios : sc.schema = s).nodes

(***************************************************************************)
(* The parse() call as a state machine                                     *)
(***************************************************************************)
parserVars == <<pc, schema, shifted, tree, result, normalized, validated, ret, err>>

\* no parse() call is under way
Idle ==
  /\ pc = "idle"
  /\ schema = Prim("null")
  /\ shifted = <<>>
  /\ tree = <<>>
  /\ result = Undefined
  /\ normalized = Undefined
  /\ validated = Undefined
  /\ ret = Undefined
  /\ err = NoError

Init ==
  /\ Idle
  /\ fpc = "idle"
  /\ fin = <<>>
  /\ fout = <<>>

\* parse(content, schema) is called
Parse ==
  /\ pc = "idle"
  /\ \E sc \in Scenarios : schema' = sc.schema
  /\ pc' = "getAst"
  /\ UNCHANGED <<shifted, tree, result, normalized, validated, ret, err, fpc, fin, fout>>

\* parseToObject: the awaited getAst resolves and the context is constructed
GetAst ==
  /\ pc = "getAst"
  /\ tree' = NewTree(schema)
  /\ result' = NewResult
  /\ pc' = "reduce"
  /\ UNCHANGED <<schema, shifted, normalized, validated, ret, err, fpc, fin, fout>>

\* reduceAstToObject: one iteration, on the child children.shift() yields
Shift ==
  /\ pc = "reduce"
  /\ Len(shifted) < MaxNodes
  /\ \E item \in Vocabulary(schema) :
       LET r == ReduceItem(tree, result, item)
       IN /\ shifted' = Append(shifted, item)
          /\ IF r.ok
             THEN /\ tree' = r.v.tree
                  /\ result' = r.v.result
                  /\ UNCHANGED <<pc, err>>
             ELSE /\ pc' = "thrown"
                  /\ err' = r.e
                  /\ UNCHANGED <<tree, result>>
  /\ UNCHANGED <<schema, normalized, validated, ret, fpc, fin, fout>>

\* reduceAstToObject returns context.result when no child is left;
\* parse reformats what parseToObject returned
Reformat ==
  /\ pc = "reduce"
  /\ normalized' = reformatToMatchSchema(result, schema)
  /\ pc' = "validate"
  /\ UNCHANGED <<schema, shifted, tree, result, validated, ret, err, fpc, fin, fout>>

\* parse validates, then returns or throws
Validate ==
  /\ pc = "validate"
  /\ validated' = ValidateArgument(result, normalized)
  /\ LET r == validate(validated', schema)
     IN IF r.ok
        THEN /\ pc' = "returned"
             /\ ret' = ReturnValue(result, normalized)
             /\ UNCHANGED err
        ELSE /\ pc' = "thrown"
             /\ err' = r.e
             /\ UNCHANGED ret
  /\ UNCHANGED <<schema, shifted, tree, result, normalized, fpc, fin, fout>>

Next == Parse \/ GetAst \/ Shift \/ Reformat \/ Validate

Spec == Init /\ [][Next]_vars

(***************************************************************************)
(* Properties of the parse() call                                          *)
(***************************************************************************)
ValidationMessage == "Result validation failed."

\* parse() threw from validate()
ValidationFailed == pc = "thrown" /\ err.msg = ValidationMessage

\* parse() threw from parseToObject(), on the last node shifted
ReduceFailed == pc = "thrown" /\ err.msg # ValidationMessage

IsPrefix(s, d) == Len(s) <= Len(d) /\ s = SubSeq(d, 1, Len(s))

\* C1: parse runs parseToObject, then reformatToMatchSchema, then validate on
\* the reformatted object (never on the raw one); it returns exactly the
\* reformatted object when the validator accepts it, and throws without
\* returning anything when the validator rejects it; no later stage runs
\* before or without the earlier one.
C1_ParseStagesInOrder ==
  /\ pc \in {"idle", "getAst", "reduce"} =>
       normalized = Undefined /\ validated = Undefined /\ ret = Undefined
  /\ pc = "validate" => validated = Undefined /\ ret = Undefined
  /\ pc = "returned" =>
       /\ validated = normalized
       /\ ret = normalized
       /\ Conforms(ret, schema)
       /\ err = NoError
  /\ ValidationFailed =>
       /\ validated = normalized
       /\ ~Conforms(normalized, schema)
       /\ ret = Undefined
  /\ ReduceFailed => normalized = Undefined /\ validated = Undefined /\ ret = Undefined

\* parse returned an object that the normalizer had changed
C1_Witness == pc = "returned" /\ normalized # result /\ ret = normalized

RECURSIVE HasShape(_, _)
RECURSIVE HasShapeOfKind(_, _, _)
\* the value has the shape the schema declares: only declared keys at object
\* levels, sequences at array levels, scalars of the declared kind elsewhere
HasShape(v, s) ==
  IF "name" \in DOMAIN s.type THEN HasShapeOfKind(v, s, s.type.name)
  ELSE \E i \in 1..Len(s.type.list) : HasShapeOfKind(v, s, s.type.list[i])

HasShapeOfKind(v, s, kind) ==
  CASE kind = "object" ->
         /\ v.t = "object"
         /\ \A i \in 1..Len(v.p) :
              /\ \E j \in 1..Len(s.properties) : s.properties[j].k = v.p[i].k
              /\ \A j \in 1..Len(s.properties) :
                   s.properties[j].k = v.p[i].k => HasShape(v.p[i].v, s.properties[j].v)
    [] kind = "array" ->
         /\ v.t = "array"
         /\ "items" \in DOMAIN s => \A i \in 1..Len(v.a) : HasShape(v.a[i], s.items)
    [] kind = "string" -> v.t = "string"
    \* typeof NaN is 'number'
    [] kind = "number" -> v.t \in {"number", "NaN"}
    [] kind = "boolean" -> v.t = "boolean"
    [] kind = "null" -> v.t = "null"
    [] OTHER -> FALSE

HeadingMessage == "Heading element has no schema definition"

IsSectionsDocument(doc) ==
  /\ Len(doc) >= 2
  /\ doc[1] = Heading(1, LabelItems)
  /\ \A i \in 2..Len(doc) : doc[i].type = "heading" /\ doc[i].depth \in {2, 3}
  /\ doc[2].depth = 2

NumSubHeadings(doc) == Cardinality({i \in 2..Len(doc) : doc[i].depth = 2})

\* the position of the n-th level-2 heading
SubHeadingAt(doc, n) ==
  CHOOSE i \in 2..Len(doc) :
    doc[i].depth = 2 /\ Cardinality({j \in 2..i : doc[j].depth = 2}) = n

SubSectionEnd(doc, n) ==
  IF n = NumSubHeadings(doc) THEN Len(doc) + 1 ELSE SubHeadingAt(doc, n + 1)

\* the element the n-th sub-section describes: its level-3 headings name the
\* fields, each left empty
ExpectedElement(doc, n) ==
  LET named == {doc[i].children : i \in (SubHeadingAt(doc, n) + 1)..(SubSectionEnd(doc, n) - 1)}
  IN ObjectV(SelectSeq(<<[k |-> KeyA, v |-> Null, l |-> <<Text(LabelA)>>],
                         [k |-> KeyB, v |-> Null, l |-> <<Text(LabelB)>>]>>,
                       LAMBDA f : f.l \in named))

ElementsInDocumentOrder(doc, value) ==
  /\ value.t = "array"
  /\ Len(value.a) = NumSubHeadings(doc)
  /\ \A n \in 1..NumSubHeadings(doc) :
       /\ value.a[n].t = "object"
       /\ ObjectKeys(value.a[n]) = ObjectKeys(ExpectedElement(doc, n))

\* C3 as stated: for a field that is an array of objects, the i-th element of
\* the sequence parse returns is built from the i-th sub-heading of the
\* section, whatever the sub-headings' labels are.
C3_AsStated ==
  (schema = SectionsSchema /\ pc = "returned" /\ IsSectionsDocument(shifted)) =>
    ElementsInDocumentOrder(shifted, Member(ret, KeyItems))

ReadmeDocument ==
  <<Heading(1, LabelTitle), Paragraph(Foo), Heading(1, LabelDescription), Paragraph(Bar)>>

\* C4 as stated: with the properties declared Title and Description and one
\* heading per property spelled the same way, each followed by a paragraph,
\* parse returns {Title: 'foo', Description: 'bar'}.
C4_AsStated ==
  /\ (schema = ReadmeSchema /\ IsPrefix(shifted, ReadmeDocument)) => ~ReduceFailed
  /\ (schema = ReadmeSchema /\ shifted = ReadmeDocument /\ pc \in {"returned", "thrown"}) =>
       /\ pc = "returned"
       /\ ret = ObjectV(<<[k |-> LabelTitle, v |-> StringV(Foo)],
                          [k |-> LabelDescription, v |-> StringV(Bar)]>>)

\* the first character lower-cased, the rest unchanged
FirstLowered(label) ==
  [i \in 1..Len(label) |-> IF i = 1 THEN toLowerCaseChar(label[i]) ELSE label[i]]

LastShifted == shifted[Len(shifted)]

ItemsDocument ==
  <<Heading(1, LabelItems), Heading(2, LabelA), Paragraph(Foo), Heading(2, LabelB),
    Paragraph(Bar)>>

\* C6 as stated: sub-headings directly under an array-typed heading whose
\* labels name properties of the items object are collected as the fields of
\* one element: '# Items', '## A' + text, '## B' + text is parsed to
\* {items: [{a: .., b: ..}]}.
C6_AsStated ==
  /\ (schema = ItemsSchema /\ IsPrefix(shifted, ItemsDocument)) => ~ReduceFailed
  /\ (schema = ItemsSchema /\ shifted = ItemsDocument /\ pc \in {"returned", "thrown"}) =>
       /\ pc = "returned"
       /\ ret = ObjectV(<<[k |-> KeyItems,
                           v |-> ArrayV(<<ObjectV(<<[k |-> KeyA, v |-> StringV(Foo)],
                                                    [k |-> KeyB, v |-> StringV(Bar)]>>)>>)]>>)

\* the nullable field of the schema being parsed: its key, its heading label
\* and its fragment
HasNullableField == schema \in {DocSchema, NullableSchema}

NullableField ==
  IF schema = DocSchema
    THEN [k |-> KeyDescription, l |-> LabelDescription]
    ELSE [k |-> KeyList, l |-> LabelList]

NullableFragment == Lookup(schema.properties, NullableField.k)

\* the heading at position i is not nested under an earlier heading
TopLevel(doc, i) ==
  \A j \in 1..(i - 1) : doc[j].type = "heading" => doc[j].depth >= doc[i].depth

\* where the field's heading occurs at the top level of the document
Occurrences(doc) ==
  {i \in 1..Len(doc) : /\ doc[i].type = "heading"
                       /\ doc[i].children = <<Text(NullableField.l)>>
                       /\ TopLevel(doc, i)}

LastOccurrence(doc) == CHOOSE i \in Occurrences(doc) : \A j \in Occurrences(doc) : j <= i

\* the heading at position i is followed by nothing that belongs to it
EmptySection(doc, i) ==
  \/ i = Len(doc)
  \/ doc[i + 1].type = "heading" /\ doc[i + 1].depth <= doc[i].depth

\* the document supplies the heading, and nothing under its last occurrence
SuppliesNothing(doc) ==
  Occurrences(doc) # {} /\ EmptySection(doc, LastOccurrence(doc))

IsNullKey(obj, k) ==
  /\ obj.t = "object"
  /\ HasKey(obj.p, k)
  /\ Lookup(obj.p, k) = Null

\* C7: for a field that is array-or-null or string-or-null, when the field's
\* heading is in the document and nothing follows its last occurrence, the
\* object handed to validation and returned by parse holds the key with value
\* null (not an empty sequence, not an absent key) and the validator accepts
\* that value; when the heading is missing the key is absent.
C7_NullWhenSectionEmpty ==
  /\ (HasNullableField /\ (pc \in {"validate", "returned"} \/ ValidationFailed)) =>
       /\ SuppliesNothing(shifted) =>
            /\ IsNullKey(normalized, NullableField.k)
            /\ Conforms(Lookup(normalized.p, NullableField.k), NullableFragment)
       /\ Occurrences(shifted) = {} => ~HasKey(normalized.p, NullableField.k)
  /\ (HasNullableField /\ pc = "returned") =>
       /\ SuppliesNothing(shifted) => IsNullKey(ret, NullableField.k)
       /\ Occurrences(shifted) = {} => ~HasKey(ret.p, NullableField.k)

\* parse returned for a document whose array-or-null section is empty
C7_Witness ==
  /\ pc = "returned"
  /\ schema = NullableSchema
  /\ SuppliesNothing(shifted)
  /\ IsNullKey(ret, KeyList)
  /\ ObjectKeys(ret) = <<KeyList, KeyOther>>

\* C7 as stated: also when the heading is missing altogether the returned
\* object contains the key with value null.
C7_AsStated ==
  (HasNullableField /\ pc = "returned"
     /\ (Occurrences(shifted) = {} \/ SuppliesNothing(shifted))) =>
    IsNullKey(ret, NullableField.k)

(***************************************************************************)
(* reformatToMatchSchema on its own: applied to a value, then to its own   *)
(* result                                                                  *)
(***************************************************************************)
MaxDepth == 2      \* the deepest nesting of the values handed to reformatToMatchSchema

ValueKeys == {KeyA, KeyB}

Scalars == {Null, StringV(<<>>), StringV(Foo), NumberV(1)}

\* the arrays of one element and the mappings of one label over the values
Singles(values) ==
  {ArrayV(<<v>>) : v \in values}
    \cup {ObjectV(PutKey(<<>>, k, v)) : k \in ValueKeys, v \in values}

\* the arrays of two elements and the mappings of two labels, in either
\* insertion order
Pairs(values) ==
  {ArrayV(<<v, w>>) : v \in values, w \in values}
    \cup {ObjectV(PutKey(PutKey(<<>>, kv[1], v), kv[2], w)) :
            kv \in {x \in ValueKeys \X ValueKeys : x[1] # x[2]},
            v \in values, w \in values}

\* what the wider containers of the deeper levels hold
NestedSample ==
  {Null, StringV(Foo), ArrayV(<<StringV(Foo)>>),
   ObjectV(<<[k |-> KeyB, v |-> StringV(Foo)], [k |-> KeyA, v |-> StringV(<<>>)]>>)}

RECURSIVE ValuesOfDepth(_)
ValuesOfDepth(d) ==
  IF d = 0 THEN Scalars
  ELSE LET inner == ValuesOfDepth(d - 1)
       IN inner
            \cup {ArrayV(<<>>), ObjectV(<<>>), ArrayV(<<Hole, StringV(Foo)>>)}
            \cup Singles(inner)
            \cup Pairs(IF d = 1 THEN Scalars ELSE NestedSample)

ItemSchemaAB == ObjectSchema(<<Prop(KeyA, Prim("string")), Prop(KeyB, Prim("string"))>>, {})

\* fragments whose type is a union: an array of {a} or null, an object {a} or null
UnionArraySchema ==
  WithItems(AnyOf(<<"array", "null">>), ObjectSchema(<<Prop(KeyA, Prim("string"))>>, {}))

UnionObjectSchema == SchemaOf(TypeList(<<"object", "null">>), <<Prop(KeyA, Prim("string"))>>, {})

NormalizeSchemas ==
  {Prim("string"),
   Prim("array"),
   Prim("object"),
   ArraySchema(Prim("string")),
   ArraySchema(Prim("array")),
   ArraySchema(ArraySchema(Prim("string"))),
   ArraySchema(ItemSchemaAB),
   ArraySchema(ObjectSchema(<<Prop(KeyA, Prim("string"))>>, {})),
   WithItems(AnyOf(<<"array", "null">>), ItemSchemaAB),
   ItemSchemaAB,
   ObjectSchema(<<Prop(KeyB, ArraySchema(Prim("string"))),
                  Prop(KeyA, ObjectSchema(<<Prop(KeyA, Prim("string"))>>, {}))>>, {KeyA}),
   ObjectSchema(<<Prop(KeyA, ArraySchema(ItemSchemaAB))>>, {}),
   ObjectSchema(<<Prop(KeyA, Prim("string")), Prop(KeyToString, Prim("string"))>>, {}),
   UnionArraySchema,
   UnionObjectSchema,
   MixedSchema}

InitNormalize ==
  /\ Idle
  /\ fpc = "in"
  /\ fin \in {[obj |-> v, schema |-> s] : v \in ValuesOfDepth(MaxDepth), s \in NormalizeSchemas}
  /\ fout = <<>>

\* reformatToMatchSchema(obj, schema)
NormalizeOnce ==
  /\ fpc = "in"
  /\ fout' = <<reformatToMatchSchema(fin.obj, fin.schema)>>
  /\ fpc' = "once"
  /\ UNCHANGED <<parserVars, fin>>

\* reformatToMatchSchema of the previous result, under the same schema
NormalizeAgain ==
  /\ fpc = "once"
  /\ fout' = Append(fout, reformatToMatchSchema(fout[1], fin.schema))
  /\ fpc' = "twice"
  /\ UNCHANGED <<parserVars, fin>>

NextNormalize == NormalizeOnce \/ NormalizeAgain

SpecNormalize == InitNormalize /\ [][NextNormalize]_vars

\* C8: reformatToMatchSchema is idempotent: applying it to its own result
\* under the same schema gives that result again, for every value (null,
\* scalar, sequence, label-keyed mapping, nested) and every schema.
C8_NormalizeIdempotent == fpc = "twice" => fout[2] = fout[1]

\* a label-keyed mapping of mappings was turned into a sequence of reduced
\* objects, and the second pass left it alone
C8_Witness ==
  /\ fpc = "twice"
  /\ fin.schema = ArraySchema(ObjectSchema(<<Prop(KeyA, Prim("string"))>>, {}))
  /\ fin.obj = ObjectV(<<[k |-> KeyB,
                          v |-> ObjectV(<<[k |-> KeyB, v |-> StringV(Foo)],
                                          [k |-> KeyA, v |-> StringV(Foo)]>>)]>>)
  /\ fout[1] = ArrayV(<<ObjectV(<<[k |-> KeyA, v |-> StringV(Foo)]>>)>>)
  /\ fout[2] = fout[1]

(***************************************************************************)
(* The merge of addValue on its own: three values of one frame, grouped    *)
(* from the left and from the right                                        *)
(***************************************************************************)
MaxItems == 2      \* the longest list a content node of an array frame yields

MergeTexts == {<<>>, <<"a">>, <<"b", "\n">>}

\* the values parseValue gives under a frame of each type
StringValues == {StringV(t) : t \in MergeTexts}
ArrayValues ==
  {ArrayV(a) : a \in UNION {[1..n -> {StringV(<<>>), StringV(<<"a">>)}] : n \in 0..MaxItems}}
NumberValues == {ToNumber(t) : t \in {<<>>, <<"1">>, <<"2", "0">>, <<"a">>}}
BooleanValues == {BooleanV(b) : b \in BOOLEAN}
NullValues == {Null}

ValueKinds == {StringValues, ArrayValues, NumberValues, BooleanValues, NullValues}

InitMerge ==
  /\ Idle
  /\ fpc = "in"
  /\ fin \in UNION {kind \X kind \X kind : kind \in ValueKinds}
  /\ fout = <<>>

\* merge(merge(a, b), c)
MergeLeftFirst ==
  /\ fpc = "in"
  /\ LET ab == MergeValue(fin[1], fin[2])
     IN fout' = <<IF ab.ok THEN MergeValue(ab.v, fin[3]) ELSE ab>>
  /\ fpc' = "left"
  /\ UNCHANGED <<parserVars, fin>>

\* merge(a, merge(b, c))
MergeRightFirst ==
  /\ fpc = "left"
  /\ LET bc == MergeValue(fin[2], fin[3])
     IN fout' = Append(fout, IF bc.ok THEN MergeValue(fin[1], bc.v) ELSE bc)
  /\ fpc' = "both"
  /\ UNCHANGED <<parserVars, fin>>

NextMerge == MergeLeftFirst \/ MergeRightFirst

SpecMerge == InitMerge /\ [][NextMerge]_vars

\* what addValue leaves at the path after the three values, from the null
\* addProperty put there
FoldFromNull(a, b, c) ==
  LET first == MergeValue(Null, a)
      second == MergeValue(first.v, b)
  IN MergeValue(second.v, c)

\* C9: the merge of the content blocks of one heading is associative: for
\* three values a, b, c of one frame, merge(merge(a, b), c) and
\* merge(a, merge(b, c)) are the same string or sequence, and it is what the
\* section ends up with.
C9_MergeAssociative ==
  fpc = "both" =>
    /\ fout[1].ok
    /\ fout[1] = fout[2]
    /\ fout[1] = FoldFromNull(fin[1], fin[2], fin[3])

\* three texts, the middle one empty, merged in both groupings
C9_Witness ==
  /\ fpc = "both"
  /\ fin = <<StringV(<<"a">>), StringV(<<>>), StringV(<<"a">>)>>
  /\ fout[2] = Ok(StringV(<<"a", "\n", "\n", "\n", "\n", "a">>))

(***************************************************************************)
(* parseValue for type 'boolean' on its own                                *)
(***************************************************************************)
MaxTextLen == 4    \* the longest section text drawn from the letters

Letters == {"t", "T", "r", "R", "u", "U", "e", "E", "1"}

LongerTexts ==
  {<<"f", "a", "l", "s", "e">>, <<"F", "a", "l", "s", "e">>, <<"t", "r", "u", "e", " ">>,
   <<" ", "t", "r", "u", "e">>, <<"t", "r", "u", "e", "e">>, <<"T", "R", "U", "E", "\n">>,
   <<"y", "e", "s">>}

BooleanTexts == UNION {[1..n -> Letters] : n \in 0..MaxTextLen} \cup LongerTexts

\* the content nodes whose extracted string is the text: one paragraph, a
\* paragraph whose tail is emphasised, a code block, a thematic break
NodesOf(text) ==
  {Paragraph(text), Literal("code", text)}
    \cup {Parent("paragraph", <<Text(SubSeq(text, 1, 2)),
                                Parent("strong", <<Text(SubSeq(text, 3, Len(text)))>>)>>) :
            x \in IF Len(text) > 2 THEN {0} ELSE {}}
    \cup {Leaf("thematicBreak") : x \in IF text = <<>> THEN {0} ELSE {}}

InitBoolean ==
  /\ Idle
  /\ fpc = "in"
  /\ fin \in UNION {{[text |-> t, node |-> n] : n \in NodesOf(t)} : t \in BooleanTexts}
  /\ fout = <<>>

\* parseValue(node, 'boolean')
ExtractBoolean ==
  /\ fpc = "in"
  /\ fout' = <<parseValue(fin.node, TypeName("boolean"))>>
  /\ fpc' = "out"
  /\ UNCHANGED <<parserVars, fin>>

NextBoolean == ExtractBoolean

SpecBoolean == InitBoolean /\ [][NextBoolean]_vars

\* the sixteen spellings of the token 'true'
TrueSpellings ==
  {<<a, b, c, d>> : a \in {"t", "T"}, b \in {"r", "R"}, c \in {"u", "U"}, d \in {"e", "E"}}

\* C10: the boolean of a section is true exactly when its text is the token
\* 'true' in any letter case ('True', 'TRUE', 'true'); every other text, among
\* them 'false', the empty string and 'true' with more characters, gives
\* false; it is not the negation of the extracted string.
C10_BooleanIsExactTrue ==
  fpc = "out" => fout[1] = Ok(BooleanV(fin.text \in TrueSpellings))

\* 'True' gave true
C10_Witness ==
  /\ fpc = "out"
  /\ fin.text = <<"T", "r", "u", "e">>
  /\ fin.node = Paragraph(fin.text)
  /\ fout[1] = Ok(BooleanV(TRUE))

(***************************************************************************)
(* Extraction errors and the fold of a section                             *)
(***************************************************************************)
\* the texts Number() reads as a numeric literal, among the texts of the model
IsNumericLiteral(text) ==
  text # <<>> /\ \A i \in 1..Len(text) : IsDigit(text[i])

\* the document is the heading of the number field and then content nodes,
\* one of them a paragraph that is not a numeric literal
HasNonNumericContent(doc) ==
  /\ Len(doc) >= 2
  /\ doc[1] = Heading(1, LabelCount)
  /\ \A i \in 2..Len(doc) : doc[i].type # "heading"
  /\ \E i \in 2..Len(doc) :
       doc[i].type = "paragraph" /\ ~IsNumericLiteral(doc[i].children[1].value)

\* C11 as stated: text under a number field that is not a numeric literal
\* makes the pass fail, and no value made from it is stored in the result.
C11_AsStated ==
  (schema = CountSchema /\ HasNonNumericContent(shifted)) => ReduceFailed

RECURSIVE Sum(_)
Sum(ns) == IF ns = <<>> THEN 0 ELSE Head(ns) + Sum(Tail(ns))

\* how many constraints of the schema the value violates
RECURSIVE ViolationCount(_, _)
ViolationCount(v, s) ==
  (IF TypeValid(v, s.type) THEN 0 ELSE 1)
    + (IF IsPlainObject(v)
       THEN Cardinality({key \in s.required : Member(v, key) = Undefined})
              + Sum([i \in 1..Len(s.properties) |->
                       IF Member(v, s.properties[i].k) # Undefined
                       THEN ViolationCount(Member(v, s.properties[i].k), s.properties[i].v)
                       ELSE 0])
       ELSE 0)
    + (IF IsArray(v) /\ HasItems(s)
       THEN Sum([i \in 1..Len(v.a) |->
                   ViolationCount(IF v.a[i] = Hole THEN Undefined ELSE v.a[i], s.items)])
       ELSE 0)

NoHeadingLabelled(doc, label) ==
  \A i \in 1..Len(doc) : doc[i].type = "heading" => doc[i].children # <<Text(label)>>

ParentFrame == tree[Len(tree) - 1]

HeadingResolved == pc = "reduce" /\ shifted # <<>> /\ LastShifted.type = "heading"

\* C13: a frame that offers both a property named like the heading and an
\* `items` fragment resolves the heading to the property's fragment; the
\* `items` fragment is used only when no property matches.
C13_PropertyBeforeItems ==
  HeadingResolved =>
    LET key == getCurrentContext(tree).path
        parent == ParentFrame.schema
    IN IF HasKey(parent.properties, key)
       THEN getCurrentSchema(tree) = Lookup(parent.properties, key)
       ELSE HasItems(parent) /\ getCurrentSchema(tree) = parent.items

\* 'Title' was resolved against a frame that has the property and `items`
C13_Witness ==
  /\ HeadingResolved
  /\ schema = PrecedenceSchema
  /\ shifted = <<Heading(1, LabelTitle)>>
  /\ HasItems(ParentFrame.schema)
  /\ getCurrentSchema(tree) = Prim("string")
  /\ getCurrentSchema(tree) # ParentFrame.schema.items

\* the outcome of extracting the last node under the current frame
LastExtraction == parseValue(LastShifted, getCurrentSchema(tree).type)

\* parse() has thrown and nothing moves any more
NothingAfterThrow == [][pc # "thrown"]_vars

HeadingErrorText(e) ==
  <<"H", "e", "a", "d", "i", "n", "g", " ", "e", "l", "e", "m", "e", "n", "t", " ">>
    \o e.arg
    \o <<" ", "h", "a", "s", " ", "n", "o", " ", "s", "c", "h", "e", "m", "a", " ",
         "d", "e", "f", "i", "n", "i", "t", "i", "o", "n", ".">>

IsInfix(part, whole) ==
  \E i \in 0..(Len(whole) - Len(part)) : SubSeq(whole, i + 1, i + Len(part)) = part

HeadingFailed == pc = "thrown" /\ err.msg = HeadingMessage

\* the frame the failed heading was looked up in, and the path to it
FailedFrame == getCurrentContext(PopToLevel(tree, LastShifted.depth))
FailedPath == getPropertyPath(PopToLevel(tree, LastShifted.depth))

MaxListItems == 2  \* the longest list drawn from all the list items

\* phrasing leaves; 'image' is a kind parseStringType has no case for
InlineLeaves ==
  {Text(<<"a">>), Text(<<"b", " ">>), Literal("inlineCode", <<"c">>), Leaf("break"),
   Parent("delete", <<Text(<<"x">>)>>), Leaf("image")}

InlineContainers ==
  {Parent(type, children) :
     type \in {"strong", "emphasis", "link"},
     children \in UNION {[1..n -> InlineLeaves] : n \in 1..2}}

Paragraphs ==
  {Parent("paragraph", <<c>>) : c \in InlineLeaves \cup InlineContainers}
    \cup {Parent("paragraph", cs) : cs \in [1..2 -> InlineLeaves]}
    \cup {Parent("paragraph", <<Text(<<"a">>), c, Text(<<"b">>)>>) : c \in InlineContainers}

\* blocks that are no list; 'blockquote' is a kind parseStringType has no
\* case for
OtherBlocks ==
  {Literal("code", <<"c", "\n", "d">>), Literal("html", <<"<", "p", ">">>),
   Literal("yaml", <<"k", ":">>), Leaf("thematicBreak"),
   Parent("blockquote", <<Paragraph(<<"a">>)>>)}

NestedList == List(TRUE, <<ListItem(<<"n">>), ListItem(<<"m">>)>>)

ListItems ==
  {ListItem(<<"a">>), ListItem(<<>>),
   Parent("listItem", <<Parent("paragraph", <<Text(<<"a">>), Parent("strong", <<Text(<<"b">>)>>)>>)>>),
   Parent("listItem", <<Paragraph(<<"a">>), Paragraph(<<"b">>)>>),
   Parent("listItem", <<Paragraph(<<"a">>), NestedList>>),
   Parent("listItem", <<Parent("paragraph", <<Text(<<"a">>), Leaf("image")>>)>>),
   Parent("listItem", <<Literal("code", <<"c">>), Parent("blockquote", <<>>)>>)}

Lists ==
  {List(ordered, items) :
     ordered \in BOOLEAN,
     items \in UNION {[1..n -> ListItems] : n \in 0..MaxListItems}}
    \cup {List(ordered, <<ListItem(<<"a">>), ListItem(<<"b">>), item>>) :
            ordered \in BOOLEAN, item \in ListItems}

ExtractNodes == Paragraphs \cup OtherBlocks \cup Lists

InitExtract ==
  /\ Idle
  /\ fpc = "in"
  /\ fin \in ExtractNodes
  /\ fout = <<>>

\* parseValue(node, 'array')
ExtractArray ==
  /\ fpc = "in"
  /\ fout' = <<parseValue(fin, TypeName("array"))>>
  /\ fpc' = "array"
  /\ UNCHANGED <<parserVars, fin>>

\* parseValue(node, 'string')
ExtractString ==
  /\ fpc = "in"
  /\ fout' = <<parseValue(fin, TypeName("string"))>>
  /\ fpc' = "string"
  /\ UNCHANGED <<parserVars, fin>>

NextExtract == ExtractArray \/ ExtractString

SpecExtract == InitExtract /\ [][NextExtract]_vars

\* the reference definition of the text of a node tree
TextBearing == {"text", "inlineCode", "code", "html", "yaml"}
Containers == {"paragraph", "strong", "italic", "emphasis", "footnote",
               "footnoteDefinition", "link", "linkReference", "list"}
Positions == <<"1", "2", "3", "4", "5", "6", "7", "8", "9">>

RECURSIVE ReferenceText(_)
RECURSIVE ConcatText(_)
RECURSIVE ItemsText(_, _, _)

\* the children's texts one after the other
ConcatText(children) ==
  IF children = <<>> THEN <<>>
  ELSE ReferenceText(Head(children)) \o ConcatText(Tail(children))

\* the items of a list from position n on, each on a line behind its prefix
ItemsText(items, n, ordered) ==
  IF items = <<>> THEN <<>>
  ELSE (IF ordered THEN <<Positions[n], ".">> ELSE <<"-">>)
         \o <<" ">> \o ConcatText(Head(items).children) \o <<"\n">>
         \o ItemsText(Tail(items), n + 1, ordered)

ReferenceText(node) ==
  CASE node.type \in TextBearing -> node.value
    [] node.type \in {"delete", "thematicBreak"} -> <<>>
    [] node.type = "break" -> <<"\n">>
    [] node.type = "list" -> ItemsText(node.children, 1, node.ordered)
    [] node.type \in Containers \ {"list"} -> ConcatText(node.children)

\* every node of the tree that extraction visits is of a kind it has a case for
RECURSIVE KnownTree(_)
KnownTree(node) ==
  CASE node.type \in TextBearing \cup {"delete", "thematicBreak", "break"} -> TRUE
    [] node.type \in Containers \cup {"listItem"} ->
         \A i \in 1..Len(node.children) : KnownTree(node.children[i])
    [] OTHER -> FALSE

\* the kind of the first node, in document order, that extraction has no case for
RECURSIVE FirstUnknownKind(_)
FirstUnknownKind(node) ==
  IF node.type \notin TextBearing \cup Containers \cup {"delete", "thematicBreak", "break", "listItem"}
  THEN node.type
  ELSE LET first == CHOOSE i \in 1..Len(node.children) :
                      /\ ~KnownTree(node.children[i])
                      /\ \A j \in 1..(i - 1) : KnownTree(node.children[j])
       IN FirstUnknownKind(node.children[first])

\* C16: under an array-typed frame a list node yields a sequence of strings,
\* one per list item in list order, each the separator-less join of the
\* item's children without a list marker; any node that is no list fails
\* with 'Unexpected array type: <kind>'.
C16_ArrayFromListOnly ==
  fpc = "array" =>
    IF fin.type = "list"
    THEN KnownTree(fin) =>
           /\ fout[1].ok
           /\ fout[1].v.t = "array"
           /\ Len(fout[1].v.a) = Len(fin.children)
           /\ \A i \in 1..Len(fin.children) :
                fout[1].v.a[i] = StringV(ConcatText(fin.children[i].children))
    ELSE fout[1] = Throw("Unexpected array type", fin.type)

\* an ordered list of two items, the second with a nested list
C16_Witness ==
  /\ fpc = "array"
  /\ fin = List(TRUE, <<ListItem(<<"a">>),
                        Parent("listItem", <<Paragraph(<<"a">>), NestedList>>)>>)
  /\ fout[1] = Ok(ArrayV(<<StringV(<<"a">>),
                           StringV(<<"a", "1", ".", " ", "n", "\n", "2", ".", " ", "m", "\n">>)>>))

C18_UnknownKindFails ==
  /\ (fpc = "string" /\ ~KnownTree(fin)) =>
       fout[1] = Throw("Unexpected content type", FirstUnknownKind(fin))
  /\ (fpc = "array" /\ fin.type = "list" /\ ~KnownTree(fin)) =>
       fout[1] = Throw("Unexpected content type", FirstUnknownKind(fin))

\* an image inside a paragraph
C18_Witness ==
  /\ fpc = "string"
  /\ fin = Parent("paragraph", <<Text(<<"a">>), Leaf("image")>>)
  /\ fout[1] = Throw("Unexpected content type", "image")

(***************************************************************************)
(* The section under the last heading                                      *)
(***************************************************************************)
LastHeadingAt(doc) ==
  CHOOSE h \in 1..Len(doc) :
    doc[h].type = "heading" /\ \A i \in (h + 1)..Len(doc) : doc[i].type # "heading"

\* the content nodes that follow the last heading
SectionBlocks(doc) == SubSeq(doc, LastHeadingAt(doc) + 1, Len(doc))

\* the texts of the blocks, a blank line between two of them
RECURSIVE JoinedBlocks(_)
JoinedBlocks(blocks) ==
  IF Len(blocks) = 1 THEN ReferenceText(blocks[1])
  ELSE ReferenceText(Head(blocks)) \o <<"\n", "\n">> \o JoinedBlocks(Tail(blocks))

\* the items of the lists, all in one sequence
RECURSIVE JoinedItems(_)
JoinedItems(blocks) ==
  IF blocks = <<>> THEN <<>>
  ELSE [i \in 1..Len(Head(blocks).children) |->
          StringV(ConcatText(Head(blocks).children[i].children))]
         \o JoinedItems(Tail(blocks))

\* C19: the content nodes under one heading are folded in document order
\* into the value at the current path: without content the null seed stays;
\* under a string frame the value is the blocks' texts joined by a blank
\* line; under an array frame it is the lists' items concatenated; no block
\* is lost, duplicated or reordered.
C19_SectionIsJoinOfBlocks ==
  (pc = "reduce" /\ shifted # <<>>
     /\ getCurrentSchema(tree).type \in {TypeName("string"), TypeName("array")}) =>
    LET blocks == SectionBlocks(shifted)
        value == get(result, getPropertyPath(tree))
    IN IF blocks = <<>> THEN value = Null
       ELSE IF getCurrentSchema(tree).type = TypeName("string")
       THEN value = StringV(JoinedBlocks(blocks))
       ELSE value = ArrayV(JoinedItems(blocks))

\* three paragraphs under one heading
C19_Witness ==
  /\ pc = "reduce"
  /\ schema = DocSchema
  /\ shifted = <<Heading(1, LabelTitle), Paragraph(Foo), Paragraph(Bar), Paragraph(Foo)>>
  /\ Member(result, KeyTitle)
       = StringV(<<"f", "o", "o", "\n", "\n", "b", "a", "r", "\n", "\n", "f", "o", "o">>)

\* the step resolves a heading
HeadingStep ==
  /\ pc = "reduce" /\ pc' = "reduce"
  /\ Len(shifted') = Len(shifted) + 1
  /\ shifted'[Len(shifted')].type = "heading"

\* C20: after a heading of level L is resolved, the frames below the new
\* frame are exactly the frames stacked before with a level smaller than L,
\* in their order, and the heading's null seed is stored at the path of those
\* frames followed by its key: a heading after a deeper sub-section becomes a
\* sibling of that sub-section's parent.
C20_FramesBelowHaveSmallerLevel ==
  [][HeadingStep =>
       LET heading == shifted'[Len(shifted')]
           kept == SelectSeq(tree, LAMBDA frame : frame.depth < heading.depth)
           key == FirstLowered(heading.children[1].value)
       IN /\ Len(tree') = Len(kept) + 1
          /\ SubSeq(tree', 1, Len(kept)) = kept
          /\ tree'[Len(tree')].depth = heading.depth
          /\ tree'[Len(tree')].path = key
          /\ getPropertyPath(tree') = getPropertyPath(kept) \o <<key>>
          /\ get(result', getPropertyPath(tree')) = Null]_vars

\* '## Y' after '### A' is stored beside '## x', under 'items'
C20_Witness ==
  /\ pc = "reduce"
  /\ schema = SectionsSchema
  /\ shifted = <<Heading(1, LabelItems), Heading(2, <<"x">>), Heading(3, LabelA),
                 Heading(2, <<"Y">>)>>
  /\ getPropertyPath(tree) = <<KeyItems, <<"y">>>>
  /\ ObjectKeys(Member(result, KeyItems)) = <<<<"x">>, <<"y">>>>

(***************************************************************************)
(* The context stack                                                       *)
(***************************************************************************)
ContextExists == pc \in {"reduce", "validate", "returned", "thrown"}

RootFrame == [path |-> RootPath, schema |-> schema, depth |-> 0]

\* C21: in every state reached by any sequence of headings and content
\* nodes the stack is non-empty, its bottom frame is the root frame (level 0,
\* the root schema), which is never popped, and the levels strictly increase
\* from bottom to top.
C21_StackInvariant ==
  /\ [](ContextExists =>
          /\ Len(tree) >= 1
          /\ tree[1] = RootFrame
          /\ \A i \in 1..Len(tree) : \A j \in 1..Len(tree) :
               i < j => tree[i].depth < tree[j].depth)
  /\ [][ContextExists => Len(tree') >= 1 /\ tree'[1] = tree[1]]_vars

\* three headings deep, then back to a second-level heading
C21_Witness ==
  /\ pc = "reduce"
  /\ schema = SectionsSchema
  /\ Len(shifted) = 5
  /\ shifted[4] = Heading(3, LabelB)
  /\ shifted[5].depth = 2
  /\ Len(tree) = 3
  /\ tree[3].depth = 2

(***************************************************************************)
(* Termination of the pass                                                 *)
(***************************************************************************)
\* the loop of reduceAstToObject runs on while a child is left, the awaited
\* tokenizer resolves, and parse goes on to reformat and validate
SpecFair == Spec /\ WF_vars(Next)

NumHeadings(doc) == Cardinality({i \in 1..Len(doc) : doc[i].type = "heading"})

\* the frames a heading of the level removes from the stack
FramesAtOrAbove(t, level) == Cardinality({i \in 1..Len(t) : t[i].depth >= level})

\* one iteration of the loop has run
NodeStep == pc = "reduce" /\ shifted' # shifted

KeySet(pairs) == {pairs[i].k : i \in 1..Len(pairs)}

\* reformatToMatchSchema ran once on a plain object under an object schema
ObjectBranchRan ==
  /\ fpc = "once"
  /\ fin.schema.type = TypeName("object")
  /\ fin.obj.t = "object"

\* C23, what holds: for an object schema and a mapping, reformatToMatchSchema returns a
\* mapping whose keys are the declared names that the value holds, each
\* reformatted against its property fragment: undeclared keys are dropped, a
\* key holding null stays null, and a declared name the value does not hold
\* is not added - unless Object.prototype defines the name, in which case it
\* is added with the inherited function.
C23_ObjectKeepsDeclaredPresentKeys ==
  ObjectBranchRan =>
    LET declared == KeySet(fin.schema.properties)
        own == KeySet(fin.obj.p)
        out == fout[1]
    IN /\ out.t = "object"
       /\ KeySet(out.p) = (declared \cap own) \cup (declared \cap InheritedKeys)
       /\ \A k \in declared \cap own :
            /\ Lookup(out.p, k)
                 = reformatToMatchSchema(Lookup(fin.obj.p, k), Lookup(fin.schema.properties, k))
            /\ Lookup(fin.obj.p, k) = Null => Lookup(out.p, k) = Null
       /\ \A k \in (declared \cap InheritedKeys) \ own : Lookup(out.p, k) = FunctionV(k)

\* an undeclared key was dropped and a null kept
C23_Witness ==
  /\ ObjectBranchRan
  /\ fin.schema = ObjectSchema(<<Prop(KeyA, ArraySchema(ItemSchemaAB))>>, {})
  /\ fin.obj = ObjectV(<<[k |-> KeyB, v |-> StringV(Foo)], [k |-> KeyA, v |-> Null]>>)
  /\ fout[1] = ObjectV(<<[k |-> KeyA, v |-> Null]>>)

\* C23 as stated: the keys returned are exactly those declared in
\* schema.properties and present in the value.
C23_AsStated ==
  ObjectBranchRan =>
    KeySet(fout[1].p) = KeySet(fin.schema.properties) \cap KeySet(fin.obj.p)

\* the key the n-th sub-heading of the section is stored under
SubHeadingKey(doc, n) == FirstLowered(doc[SubHeadingAt(doc, n)].children[1].value)

DistinctSubHeadings(doc) ==
  \A n \in 1..NumSubHeadings(doc) : \A m \in 1..NumSubHeadings(doc) :
    n # m => SubHeadingKey(doc, n) # SubHeadingKey(doc, m)

\* parse reformatted the label-keyed mapping the sub-headings of 'items' built
MappingReformatted ==
  /\ schema = SectionsSchema
  /\ pc \in {"validate", "returned", "thrown"}
  /\ ~ReduceFailed
  /\ IsSectionsDocument(shifted)
  /\ DistinctSubHeadings(shifted)
  /\ Member(result, KeyItems).t = "object"

\* the entries in the order the labels were inserted
EntriesInInsertionOrder ==
  LET mapping == Member(result, KeyItems)
      items == Lookup(schema.properties, KeyItems).items
  IN ArrayV([n \in 1..NumSubHeadings(shifted) |->
               reformatToMatchSchema(Member(mapping, SubHeadingKey(shifted, n)), items)])

\* C24 as stated: for an array schema and a label-keyed mapping,
\* reformatToMatchSchema returns one entry per key in the order the keys were
\* inserted, each reformatted against schema.items.
C24_AsStated ==
  MappingReformatted => Member(normalized, KeyItems) = EntriesInInsertionOrder

\* C25 as stated: a heading is resolved through `properties` only under a
\* frame whose type is 'object' and through `items` only under a frame whose
\* type is 'array'; under a frame of any other type it fails.
C25_AsStated ==
  HeadingResolved =>
    LET key == getCurrentContext(tree).path
        parent == ParentFrame.schema
    IN \/ parent.type = TypeName("object") /\ HasKey(parent.properties, key)
       \/ parent.type = TypeName("array") /\ HasItems(parent)

(***************************************************************************)
(* Several calls on one parser instance.  A call runs synchronously        *)
(* between its awaits; the calls interleave at the awaits only.  The       *)
(* module-level promises of remark-wrapper.ts are shared by all calls.     *)
(***************************************************************************)
RECURSIVE reduceAstToObject(_, _, _)
\* the whole pass over ast.children, on the context (t, res)
reduceAstToObject(children, t, res) ==
  IF children = <<>> THEN [tree |-> t, out |-> Ok(res)]
  ELSE LET r == ReduceItem(t, res, Head(children))
       IN IF r.ok THEN reduceAstToObject(Tail(children), r.v.tree, r.v.result)
          ELSE [tree |-> t, out |-> r]

\* parseToObject after its await: a new context, the pass, the raw result
parseToObject(ast, s) == reduceAstToObject(ast, NewTree(s), NewResult)

\* parse after its await: reformat, validate, return
parseRest(parsedObject, s) ==
  LET reformatted == reformatToMatchSchema(parsedObject, s)
      r == validate(ValidateArgument(parsedObject, reformatted), s)
  IN IF r.ok THEN Ok(ReturnValue(parsedObject, reformatted)) ELSE r

NumCalls == 2      \* the calls made on the parser instance

\* the (document, schema) arguments of the calls
CallInputs ==
  {[content |-> <<Heading(1, LabelTitle), Paragraph(Foo)>>, schema |-> DocSchema],
   [content |-> <<Heading(2, LabelDescription), Heading(1, LabelTitle)>>, schema |-> DocSchema],
   [content |-> <<Heading(1, LabelCount), Paragraph(Twelve)>>, schema |-> CountSchema],
   [content |-> <<Paragraph(Foo)>>, schema |-> CountSchema]}

Entries == {"parse", "parseToObject"}

NotCalled == [pc |-> "idle", ast |-> <<>>, tree |-> <<>>, obj |-> Undefined, outcome |-> <<>>]

InitCalls ==
  /\ Idle
  /\ fpc = "calls"
  /\ fin \in [1..NumCalls -> {[entry |-> e, content |-> in.content, schema |-> in.schema] :
                                e \in Entries, in \in CallInputs}]
  /\ fout = [unifiedPromise |-> "unset", remarkParsePromise |-> "unset",
             calls |-> [i \in 1..NumCalls |-> NotCalled]]

\* loadUnified / loadRemarkParse: the import is started once and its promise kept
Load(promise) == IF promise = "unset" THEN "pending" ELSE promise

\* parse or parseToObject is called; it runs down to the await in createProcessor
CallInvoke(i) ==
  /\ fout.calls[i].pc = "idle"
  /\ fout' = [fout EXCEPT !.unifiedPromise = Load(@), !.remarkParsePromise = Load(@),
                          !.calls[i].pc = "createProcessor"]
  /\ UNCHANGED <<parserVars, fpc, fin>>

\* import('unified') is fulfilled
ImportUnified ==
  /\ fout.unifiedPromise = "pending"
  /\ fout' = [fout EXCEPT !.unifiedPromise = "fulfilled"]
  /\ UNCHANGED <<parserVars, fpc, fin>>

\* import('remark-parse') is fulfilled
ImportRemarkParse ==
  /\ fout.remarkParsePromise = "pending"
  /\ fout' = [fout EXCEPT !.remarkParsePromise = "fulfilled"]
  /\ UNCHANGED <<parserVars, fpc, fin>>

\* createProcessor resumes after Promise.all and returns a new processor
CallCreateProcessor(i) ==
  /\ fout.calls[i].pc = "createProcessor"
  /\ fout.unifiedPromise = "fulfilled" /\ fout.remarkParsePromise = "fulfilled"
  /\ fout' = [fout EXCEPT !.calls[i].pc = "parseMarkdown"]
  /\ UNCHANGED <<parserVars, fpc, fin>>

\* parseMarkdown resumes: processor.parse(content)
CallParseMarkdown(i) ==
  /\ fout.calls[i].pc = "parseMarkdown"
  /\ fout' = [fout EXCEPT !.calls[i].pc = "getAst", !.calls[i].ast = fin[i].content]
  /\ UNCHANGED <<parserVars, fpc, fin>>

\* getAst resumes and returns the tree
CallGetAst(i) ==
  /\ fout.calls[i].pc = "getAst"
  /\ fout' = [fout EXCEPT !.calls[i].pc = "parseToObject"]
  /\ UNCHANGED <<parserVars, fpc, fin>>

\* the call after parseToObject ended with `r`: a call of parseToObject is
\* done, a call of parse goes on unless the pass threw
AfterParseToObject(call, entry, r) ==
  LET goesOn == r.out.ok /\ entry = "parse"
  IN [call EXCEPT !.tree = r.tree,
                  !.obj = IF r.out.ok THEN r.out.v ELSE Undefined,
                  !.pc = IF goesOn THEN "parse" ELSE "done",
                  !.outcome = IF goesOn THEN <<>> ELSE r.out]

\* parseToObject resumes: new ContextDto, reduceAstToObject, return
CallParseToObject(i) ==
  /\ fout.calls[i].pc = "parseToObject"
  /\ fout' = [fout EXCEPT
               !.calls[i] = AfterParseToObject(@, fin[i].entry,
                                               parseToObject(fout.calls[i].ast, fin[i].schema))]
  /\ UNCHANGED <<parserVars, fpc, fin>>

\* parse resumes: reformatToMatchSchema, validate, return
CallParse(i) ==
  /\ fout.calls[i].pc = "parse"
  /\ fout' = [fout EXCEPT !.calls[i].pc = "done",
                          !.calls[i].outcome = parseRest(fout.calls[i].obj, fin[i].schema)]
  /\ UNCHANGED <<parserVars, fpc, fin>>

NextCalls ==
  \/ ImportUnified
  \/ ImportRemarkParse
  \/ \E i \in 1..NumCalls :
       \/ CallInvoke(i)
       \/ CallCreateProcessor(i)
       \/ CallParseMarkdown(i)
       \/ CallGetAst(i)
       \/ CallParseToObject(i)
       \/ CallParse(i)

SpecCalls == InitCalls /\ [][NextCalls]_vars

\* what one call alone, in a process that made no call before, gives
AloneContext(s) == <<[path |-> RootPath, schema |-> s, depth |-> 0]>>

AloneOutcome(in) ==
  LET r == reduceAstToObject(in.content, AloneContext(in.schema), ObjectV(<<>>)).out
  IN IF r.ok /\ in.entry = "parse" THEN parseRest(r.v, in.schema) ELSE r

CallDone(i) == fpc = "calls" /\ fout.calls[i].pc = "done"

NoCallUnderWay == fpc = "calls" /\ \A i \in 1..NumCalls : fout.calls[i].pc \in {"idle", "done"}

MaxLevelNodes == 3     \* the longest renumbered document
MaxLevel == 4          \* the deepest heading level after renumbering

DocLevels == 1..3

\* the strictly increasing maps of the levels
Renumberings ==
  {f \in [DocLevels -> 1..MaxLevel] : \A a \in DocLevels : \A b \in DocLevels : a < b => f[a] < f[b]}

LevelNodes ==
  Headings(DocLevels, {LabelItems, LabelA, LabelB}) \cup {Paragraph(Foo)}

LevelDocuments == UNION {[1..n -> LevelNodes] : n \in 0..MaxLevelNodes}

\* the document with the level of every heading replaced
Renumber(content, f) ==
  [i \in 1..Len(content) |->
     IF content[i].type = "heading"
     THEN [content[i] EXCEPT !.depth = f[content[i].depth]]
     ELSE content[i]]

InitLevels ==
  /\ Idle
  /\ fpc = "levels"
  /\ fin \in {[content |-> d, schema |-> s, levels |-> f] :
                d \in LevelDocuments, s \in {ItemsSchema}, f \in Renumberings}
  /\ fout = [original |-> <<>>, renumbered |-> <<>>]

\* parseToObject(content, schema)
ParseOriginal ==
  /\ fpc = "levels" /\ fout.original = <<>>
  /\ fout' = [fout EXCEPT !.original = parseToObject(fin.content, fin.schema).out]
  /\ UNCHANGED <<parserVars, fpc, fin>>

\* parseToObject(renumbered content, schema)
ParseRenumbered ==
  /\ fpc = "levels" /\ fout.renumbered = <<>>
  /\ fout' = [fout EXCEPT
               !.renumbered = parseToObject(Renumber(fin.content, fin.levels), fin.schema).out]
  /\ UNCHANGED <<parserVars, fpc, fin>>

NextLevels == ParseOriginal \/ ParseRenumbered

SpecLevels == InitLevels /\ [][NextLevels]_vars

BothParsed == fpc = "levels" /\ fout.original # <<>> /\ fout.renumbered # <<>>

\* C27: replacing the levels of all headings of a document by a strictly
\* order-preserving renumbering gives the same result object, or the same
\* failure.
C27_LevelsMatterByOrderOnly == BothParsed => fout.renumbered = fout.original

\* levels 1,3,2 renumbered 1,4,3 give the same section of two siblings
C27_Witness ==
  /\ BothParsed
  /\ fin.content = <<Heading(1, LabelItems), Heading(3, LabelA), Heading(2, LabelB)>>
  /\ fin.levels = [l \in DocLevels |-> IF l = 1 THEN 1 ELSE l + 1]
  /\ fout.original.ok
  /\ fout.original.v =
       ObjectV(<<[k |-> KeyItems,
                  v |-> ObjectV(<<[k |-> KeyA, v |-> Null], [k |-> KeyB, v |-> Null]>>)]>>)

\* the sub-headings of the section were all consumed and the object reformatted
SectionReformatted ==
  /\ schema = SectionsSchema
  /\ pc \in {"validate", "returned", "thrown"}
  /\ ~ReduceFailed
  /\ IsSectionsDocument(shifted)

\* the last sub-heading stored under the key
LastWithKey(doc, key) ==
  CHOOSE n \in 1..NumSubHeadings(doc) :
    /\ SubHeadingKey(doc, n) = key
    /\ \A m \in 1..NumSubHeadings(doc) : SubHeadingKey(doc, m) = key => m <= n

\* the keys the level-3 headings of the n-th sub-section store
SubSectionFields(doc, n) ==
  {FirstLowered(doc[i].children[1].value) :
     i \in (SubHeadingAt(doc, n) + 1)..(SubSectionEnd(doc, n) - 1)}

\* the element is what the n-th sub-section alone stores: null, or its fields
\* left empty
HoldsSubSection(element, doc, n) ==
  IF SubSectionFields(doc, n) = {} THEN element = Null
  ELSE /\ IsPlainObject(element)
       /\ KeySet(element.p) = SubSectionFields(doc, n)
       /\ \A j \in 1..Len(element.p) : element.p[j].v = Null

SubHeadingKeys(doc) == {SubHeadingKey(doc, n) : n \in 1..NumSubHeadings(doc)}

\* one element per key, holding what the key's last sub-section stored
CollapsedToLastOccurrence(doc, items) ==
  /\ IsArray(items)
  /\ Len(items.a) = Cardinality(SubHeadingKeys(doc))
  /\ \A key \in SubHeadingKeys(doc) :
       \E e \in 1..Len(items.a) : HoldsSubSection(items.a[e], doc, LastWithKey(doc, key))

\* C28 as stated: a heading that resolves to a path already holding data resets
\* it to null, so an array section with repeated labels yields one element per
\* distinct label, carrying only the content of the label's last occurrence.
C28_AsStated ==
  SectionReformatted => CollapsedToLastOccurrence(shifted, Member(normalized, KeyItems))

\* the types parseValue has a case for
ContentTypes == {TypeName(n) : n \in {"array", "string", "number", "boolean", "null"}}

UnknownTypeMessage == "Unknown schema type"

\* one iteration of the pass on a node that is no heading
ContentStep ==
  /\ pc = "reduce"
  /\ Len(shifted') = Len(shifted) + 1
  /\ shifted'[Len(shifted')].type # "heading"

\* C29: a content node is accepted only when the current frame's schema type
\* is exactly 'array', 'string', 'number', 'boolean' or 'null'; under an
\* object-typed frame or a union type the pass aborts with 'Unknown schema
\* type' naming the type, so a field with a union type never holds anything
\* but null.
C29_ContentNeedsSingleKnownType ==
  /\ [][ContentStep =>
          LET type == getCurrentSchema(tree).type
          IN IF type \in ContentTypes
             THEN pc' = "thrown" => err'.msg # UnknownTypeMessage
             ELSE /\ pc' = "thrown"
                  /\ err' = [msg |-> UnknownTypeMessage, arg |-> type]
                  /\ result' = result]_vars
  /\ [](ContextExists /\ schema = DocSchema =>
          Member(result, KeyDescription) \in {Undefined, Null})

\* a paragraph under the string-or-null field stopped the pass
C29_Witness ==
  /\ pc = "thrown"
  /\ schema = DocSchema
  /\ shifted = <<Heading(1, LabelDescription), Paragraph(Foo)>>
  /\ err = [msg |-> UnknownTypeMessage, arg |-> TypeList(<<"string", "null">>)]
  /\ Member(result, KeyDescription) = Null

NormalizeRan == fpc \in {"once", "twice"}

IsUnion(type) == "list" \in DOMAIN type

\* C30: reformatToMatchSchema turns a mapping into a sequence only when
\* schema.type is exactly 'array' and prunes a mapping only when it is
\* exactly 'object'; under a union type, also one that holds 'array' or
\* 'object', the value is returned unchanged, its elements not reformatted.
C30_UnionTypeLeavesValueUnchanged ==
  NormalizeRan =>
    /\ IsUnion(fin.schema.type) => fout[1] = fin.obj
    /\ IsPlainObject(fin.obj) /\ IsArray(fout[1]) => fin.schema.type = TypeName("array")
    /\ IsPlainObject(fin.obj) /\ IsPlainObject(fout[1]) /\ fout[1] # fin.obj
         => fin.schema.type = TypeName("object")

\* a mapping with an element that holds an undeclared key came back as it was
C30_Witness ==
  /\ NormalizeRan
  /\ fin.schema = UnionArraySchema
  /\ fin.obj = ObjectV(<<[k |-> KeyA,
                           v |-> ObjectV(<<[k |-> KeyB, v |-> StringV(Foo)],
                                           [k |-> KeyA, v |-> StringV(<<>>)]>>)],
                         [k |-> KeyB, v |-> Null]>>)
  /\ fout[1] = fin.obj
  /\ reformatToMatchSchema(fin.obj, ArraySchema(fin.schema.items))
       = ArrayV(<<ObjectV(<<[k |-> KeyA, v |-> StringV(<<>>)]>>), Null>>)

====
